---- MODULE Spec2Model ----
(***************************************************************************)
(* Model of the code-review chat participant (src/src/extension.ts).       *)
(*                                                                         *)
(* Text is modelled as a sequence of tokens.  A token is an indivisible    *)
(* piece of text (a TLA+ string); the tokens are chosen so that no token   *)
(* is a proper part of a pattern the code searches for ("origin/",         *)
(* "origin/HEAD", white space), so a token-level startsWith / replace /    *)
(* trim / split computes exactly what the JavaScript string method         *)
(* computes on the text the tokens spell.                                  *)
(***************************************************************************)
EXTENDS Naturals, Sequences, FiniteSets, TLC

\* ------------------------------------------------------------------ bounds
MaxDiffLen == 2
MaxFragments == 3
MaxWords == 2
MaxLines == 3

\* ---------------------------------------------------------- string methods
Whitespace == {" ", "\n"}

RECURSIVE TrimStart(_)
TrimStart(s) ==
    IF s # <<>> /\ Head(s) \in Whitespace THEN TrimStart(Tail(s)) ELSE s

RECURSIVE TrimEnd(_)
TrimEnd(s) ==
    IF s # <<>> /\ s[Len(s)] \in Whitespace
    THEN TrimEnd(SubSeq(s, 1, Len(s) - 1)) ELSE s

\* String.prototype.trim
Trim(s) == TrimEnd(TrimStart(s))

\* String.prototype.startsWith
StartsWith(s, p) == Len(s) >= Len(p) /\ SubSeq(s, 1, Len(p)) = p

\* String.prototype.replace(pattern: string, ""): only the FIRST occurrence
\* of the pattern, wherever it is in the string, is removed.
RECURSIVE ReplaceFirst(_, _)
ReplaceFirst(s, p) ==
    IF s = <<>> THEN <<>>
    ELSE IF StartsWith(s, p) THEN SubSeq(s, Len(p) + 1, Len(s))
    ELSE <<Head(s)>> \o ReplaceFirst(Tail(s), p)

\* String.prototype.split(sep) for a one-token separator: every separator
\* ends a piece, empty pieces are kept ("" splits into [""]).
RECURSIVE SplitAcc(_, _, _)
SplitAcc(s, sep, cur) ==
    IF s = <<>> THEN <<cur>>
    ELSE IF Head(s) = sep THEN <<cur>> \o SplitAcc(Tail(s), sep, <<>>)
    ELSE SplitAcc(Tail(s), sep, Append(cur, Head(s)))

Split(s, sep) == SplitAcc(s, sep, <<>>)

\* String.prototype.split(/\s+/): a maximal run of white space is one
\* separator; "" still splits into [""].
RECURSIVE SplitWsAcc(_, _)
SplitWsAcc(s, cur) ==
    IF s = <<>> THEN <<cur>>
    ELSE IF Head(s) \in Whitespace
         THEN <<cur>> \o SplitWsAcc(TrimStart(s), <<>>)
    ELSE SplitWsAcc(Tail(s), Append(cur, Head(s)))

SplitWs(s) == SplitWsAcc(s, <<>>)

\* Array.prototype.indexOf: the first index holding x, 0 when there is none
RECURSIVE IndexFrom(_, _, _)
IndexFrom(self, x, i) ==
    IF i > Len(self) THEN 0
    ELSE IF self[i] = x THEN i ELSE IndexFrom(self, x, i + 1)

IndexOf(self, x) == IndexFrom(self, x, 1)

Includes(self, x) == IndexOf(self, x) # 0

\* all sequences over S of length 0..n
SeqsUpTo(S, n) == UNION {[1..k -> S] : k \in 0..n}

\* the text of the lines, each ended by a line feed (what git prints)
RECURSIVE JoinLines(_)
JoinLines(lines) ==
    IF lines = <<>> THEN <<>>
    ELSE Head(lines) \o <<"\n">> \o JoinLines(Tail(lines))

\* words separated by one blank
RECURSIVE JoinWords(_)
JoinWords(words) ==
    IF words = <<>> THEN <<>>
    ELSE IF Len(words) = 1 THEN Head(words)
    ELSE Head(words) \o <<" ">> \o JoinWords(Tail(words))

\* ------------------------------------------------------------ JS values
\* undefined for a string-valued variable (a token no text contains)
Undefined == <<"undefined">>

\* !x for x: string | undefined
Falsy(x) == x = Undefined \/ x = <<>>

NoError == [name |-> "none", code |-> "none", message |-> <<>>]

\* new Error(message)
NewError(message) == [name |-> "Error", code |-> "none", message |-> message]

\* error instanceof Error ? error.message : String(error)
\* (every value thrown in this program is an Error instance)
ErrorText(error) == error.message

\* --------------------------------------------------- the code's functions
StagedHeader == <<"=== STAGED CHANGES ===", "\n">>
UnstagedHeader == <<"=== UNSTAGED CHANGES ===", "\n">>

\* a slip of getGitChanges: the sections are tested without trim()
GetGitChangesResult_NoTrim(staged, unstaged) ==
    LET afterStaged ==
            IF staged # <<>>
            THEN StagedHeader \o staged \o <<"\n">> ELSE <<>>
    IN  IF unstaged # <<>>
        THEN afterStaged \o UnstagedHeader \o unstaged ELSE afterStaged

\* getGitChanges, after both invocations returned: the combined diff
GetGitChangesResult(staged, unstaged) ==
    LET afterStaged ==
            IF Trim(staged) # <<>>
            THEN StagedHeader \o staged \o <<"\n">> ELSE <<>>
    IN  IF Trim(unstaged) # <<>>
        THEN afterStaged \o UnstagedHeader \o unstaged ELSE afterStaged

\* a slip of getGitChanges: exit code 128 is not re-classified
GitChangesError_Rethrow(error) == error

\* getGitChanges, its catch: what it throws for a failed invocation
GitChangesError(error) ==
    IF error.name # "none" /\ error.code = "128"
    THEN NewError(<<"Not a git repository">>) ELSE error

\* Array filter((b, index, self) => self.indexOf(b) === index)
RECURSIVE KeepFirst(_, _)
KeepFirst(self, index) ==
    IF index > Len(self) THEN <<>>
    ELSE (IF IndexOf(self, self[index]) = index THEN <<self[index]>> ELSE <<>>)
         \o KeepFirst(self, index + 1)

\* getBranches: the branch names of a listing's standard output
GetBranchesOf(stdout) ==
    LET lines == Split(stdout, "\n")
        trimmed == [i \in 1..Len(lines) |-> Trim(lines[i])]
        nonEmpty == SelectSeq(trimmed, LAMBDA b : Len(b) > 0)
        noHead == SelectSeq(nonEmpty,
                            LAMBDA b : ~StartsWith(b, <<"origin/", "HEAD">>))
        stripped == [i \in 1..Len(noHead) |->
                        ReplaceFirst(noHead[i], <<"origin/">>)]
    IN  KeepFirst(stripped, 1)

\* handleReviewBranchCommand: the default base branch
DefaultBase(branches) ==
    IF Includes(branches, <<"main">>) THEN <<"main">>
    ELSE IF Includes(branches, <<"master">>) THEN <<"master">>
    ELSE Undefined

\* a slip of resolveBranch: the error names the reference tried last
BranchNotFound_Prefixed(branch) ==
    NewError(<<"Branch '", "origin/">> \o branch \o <<"' not found">>)

\* resolveBranch: the error of a branch found neither way
BranchNotFound(branch) == NewError(<<"Branch '">> \o branch \o <<"' not found">>)

\* a slip of resolveBranch: the prefix is tried for every name
RetriesWithPrefix_Always(branch) == TRUE

\* resolveBranch: whether the failed direct verification is retried
RetriesWithPrefix(branch) == ~StartsWith(branch, <<"origin/">>)

\* the command lines
StagedCommand == <<"git diff --cached">>
UnstagedCommand == <<"git diff">>
ListCommand == <<"git branch --all --format=(quote)%(refname:short)(quote)">>
VerifyCommand(ref) == <<"git rev-parse --verify ">> \o ref
\* a slip of getBranchDiff: the two sides of the comparison swapped
DiffCommand_Swapped(resolvedBase, resolvedTarget) ==
    <<"git diff ">> \o resolvedTarget \o <<"...">> \o resolvedBase

DiffCommand(resolvedBase, resolvedTarget) ==
    <<"git diff ">> \o resolvedBase \o <<"...">> \o resolvedTarget

\* getBranchDiff, its catch: what it throws for an error of its body
BranchDiffError(error, target, base) ==
    IF error.name # "none" THEN error
    ELSE NewError(<<"Unable to compare branches '">> \o target
                  \o <<"' and '">> \o base \o <<"'">>)

\* the prompts
PromptTail == <<"\n", "(fence)", "\n\nPlease provide a thorough but concise code review.">>
PromptAsks ==
    <<" and provide:\n\n1. **Summary** 2. **Potential Issues** 3. **Best Practices** 4. **Positive Feedback**",
      "\n\nHere are the git changes:\n\n", "(fence)diff", "\n">>

ReviewPrompt(changes) ==
    <<"You are an expert code reviewer. Please review the following git changes">>
    \o PromptAsks \o changes \o PromptTail

BranchPrompt(target, base, diff) ==
    <<"You are an expert code reviewer. Please review the following git changes from branch (quote)">>
    \o target \o <<"(quote) compared to (quote)">> \o base \o <<"(quote)">>
    \o PromptAsks \o diff \o PromptTail

\* a slip of the handlers: only a missing diff counts as nothing to review
NothingToReview_MissingOnly(diff) == diff = Undefined

\* both handlers: no text to review (!diff || diff.trim().length === 0)
NothingToReview(diff) == Falsy(diff) \/ Len(Trim(diff)) = 0

\* a slip of the handlers: every error of the service is taken as classified
IsClassified_Always(err) == TRUE

\* both handlers: err instanceof vscode.LanguageModelError
IsClassified(err) == err.name = "LanguageModelError"

\* the response stream's calls
Markdown(text) == [kind |-> "markdown", text |-> text]
Progress(text) == [kind |-> "progress", text |-> text]

\* the emoji U+274C, which starts every failure message
FailureMarker == "(cross mark)"

NoWorkspaceMessage ==
    Markdown(<<FailureMarker, " No workspace folder open. Please open a git repository first.">>)
NoChangesMessage ==
    Markdown(<<"(information)", " No local git changes to review. Make some changes to your files first!">>)
NoDifferencesMessage(target, base) ==
    Markdown(<<"(information)", " No differences found between ">> \o target
             \o <<" and ">> \o base \o <<".">>)
\* a slip of the participant: the message without its failure marker
ParticipantErrorMessage_NoMarker(error) ==
    Markdown(<<" Error: ">> \o ErrorText(error))

ParticipantErrorMessage(error) ==
    Markdown(<<FailureMarker, " Error: ">> \o ErrorText(error))
ModelErrorMessage(err) ==
    Markdown(<<"\n", "\n", FailureMarker, " **Error**: ">> \o err.message)
BranchDiffErrorMessages(error) ==
    <<Markdown(<<FailureMarker, " Error getting branch diff: ">> \o ErrorText(error)
               \o <<"\n", "\n">>),
      Markdown(<<"Make sure both branches exist and are valid.">>)>>
UsageMessages ==
    <<Markdown(<<"(warning)", " Please specify the branches to compare.", "\n", "\n">>),
      Markdown(<<"**Usage**: /reviewBranch <target-branch> <base-branch>", "\n", "\n">>),
      Markdown(<<"**Example**: /reviewBranch feature/new-feature main", "\n", "\n">>)>>
AvailableBranchesMessage == Markdown(<<"**Available branches**:", "\n">>)
BranchItemMessage(branch) == Markdown(<<"- ">> \o branch \o <<"\n">>)
BranchListMessages(branches) ==
    IF Len(branches) > 0
    THEN <<AvailableBranchesMessage>>
         \o [i \in 1..Len(branches) |-> BranchItemMessage(branches[i])]
    ELSE <<>>
DefaultMessages ==
    <<Markdown(<<"I can help you review your git changes!">>),
      Markdown(<<"**Available commands:**", "\n">>),
      Markdown(<<"- /review", "\n">>),
      Markdown(<<"- /reviewBranch", "\n">>)>>

\* the i-th fragment of the model's response
Fragment(i) == <<ToString(i)>>

\* ------------------------------------------------------------ environment
\* what a diff invocation can print
DiffTokens == {"+a", " ", "\n"}
DiffOutputs == SeqsUpTo(DiffTokens, MaxDiffLen)

\* how execAsync can reject: git's exit code, or the output ceiling exceeded
ProcessErrors ==
    {[name |-> "Error", code |-> c, message |-> <<"Command failed: ", c>>] :
        c \in {"128", "1", "ERR_CHILD_PROCESS_STDIO_MAXBUFFER"}}

\* what the model service can raise: a classified error, or anything else
LanguageModelErrors ==
    {[name |-> "LanguageModelError", code |-> "Blocked",
      message |-> <<"quota exceeded">>]}
OtherModelErrors ==
    {[name |-> "Error", code |-> "none", message |-> <<"socket hang up">>]}
ModelErrors == LanguageModelErrors \cup OtherModelErrors

\* the branch names a user types, and the references a repository can hold
BranchNames == {<<"main">>, <<"feature/x">>, <<"origin/", "feature/x">>}
RefUniverse ==
    {<<"main">>, <<"feature/x">>, <<"origin/", "main">>, <<"origin/", "feature/x">>}
Prompts ==
    {JoinWords(w) : w \in SeqsUpTo(BranchNames, MaxWords)} \cup {<<" ">>}

\* the lines a branch listing can print
ListingLines ==
    {<<"main">>, <<"origin/", "main">>, <<"master">>, <<"origin/", "HEAD">>,
     <<"fix/", "origin/", "x">>, <<"origin/", "HEAD", "-fix">>}
Listings == {JoinLines(l) : l \in SeqsUpTo(ListingLines, MaxLines)}

\* ------------------------------------------------------------------ state
VARIABLES
    pc,             \* where the request handler is suspended
    command,        \* request.command
    hasWorkspace,   \* whether vscode.workspace.workspaceFolders has an entry
    prompt,         \* request.prompt
    refs,           \* the references git rev-parse --verify accepts
    out,            \* the calls made on the response stream, in order
    gitCalls,       \* the git command lines executed, in order
    failedCalls,    \* the indices of gitCalls that failed
    stagedDiff, unstagedDiff, gitChanges,
    targetBranch, baseBranch,
    resolving,      \* which call of resolveBranch is running
    resolvedTarget, resolvedBase, branchDiff,
    hintListing,    \* the output of the listing shown in the usage hint
    sent,           \* the prompts submitted to the model service
    received,       \* the fragments the relay loop has received
    cancelled,      \* token.isCancellationRequested
    cancelAt,       \* received, when the token was cancelled
    modelErr,       \* the error the model service raised
    gitErr,         \* the error a diff invocation raised
    caught,         \* the error caught by the participant (activate)
    diffError       \* the error caught around getBranchDiff

request == <<command, hasWorkspace, prompt, refs>>
working == <<stagedDiff, unstagedDiff, gitChanges>>
branch == <<targetBranch, baseBranch, resolving, resolvedTarget, resolvedBase,
            branchDiff, hintListing, diffError>>
relay == <<sent, received, cancelled, cancelAt, modelErr>>
vars == <<pc, out, gitCalls, failedCalls, gitErr, caught,
          request, working, branch, relay>>

Init ==
    /\ pc = "idle"
    /\ command \in {"review", "reviewBranch", "help"}
    /\ hasWorkspace \in BOOLEAN
    /\ prompt \in (IF command = "reviewBranch" THEN Prompts ELSE {<<>>})
    /\ refs \in (IF command = "reviewBranch" THEN SUBSET RefUniverse ELSE {{}})
    /\ out = <<>>
    /\ gitCalls = <<>>
    /\ failedCalls = {}
    /\ stagedDiff = Undefined /\ unstagedDiff = Undefined /\ gitChanges = Undefined
    /\ targetBranch = Undefined /\ baseBranch = Undefined
    /\ resolving = "none"
    /\ resolvedTarget = Undefined /\ resolvedBase = Undefined
    /\ branchDiff = Undefined
    /\ hintListing = Undefined
    /\ sent = <<>>
    /\ received = 0
    /\ cancelled = FALSE
    /\ cancelAt = 0
    /\ modelErr = NoError
    /\ gitErr = NoError
    /\ caught = NoError
    /\ diffError = NoError

\* ------------------------------------------------------ the participant
\* activate: the catch around either handler
ParticipantCatches(error) ==
    /\ caught' = error
    /\ out' = Append(out, ParticipantErrorMessage(error))
    /\ pc' = "done"

\* activate: neither command
DefaultConversation ==
    /\ pc = "idle"
    /\ command \notin {"review", "reviewBranch"}
    /\ out' = out \o DefaultMessages
    /\ pc' = "done"
    /\ UNCHANGED <<gitCalls, failedCalls, gitErr, caught, request, working,
                   branch, relay>>

\* ------------------------------------------------------------ the relay
\* both handlers: the catch around sendRequest and the relay loop
ModelFails(err) ==
    /\ modelErr' = err
    /\ IF IsClassified(err)
       THEN /\ out' = Append(out, ModelErrorMessage(err))
            /\ pc' = "done"
            /\ UNCHANGED caught
       ELSE ParticipantCatches(err)

\* both handlers: submit the prompt
SendRequest(p) ==
    /\ sent' = Append(sent, p)
    /\ pc' = "awaitSend"

SendRequestSucceeds ==
    /\ pc = "awaitSend"
    /\ pc' = "streaming"
    /\ UNCHANGED <<out, gitCalls, failedCalls, gitErr, caught, request, working,
                   branch, relay>>

SendRequestFails ==
    /\ pc = "awaitSend"
    /\ \E err \in ModelErrors : ModelFails(err)
    /\ UNCHANGED <<gitCalls, failedCalls, gitErr, request, working, branch,
                   sent, received, cancelled, cancelAt>>

\* the relay loop's body: a fragment arrives and is forwarded at once
FragmentArrives ==
    /\ pc = "streaming"
    /\ received < MaxFragments
    /\ received' = received + 1
    /\ out' = Append(out, Markdown(Fragment(received + 1)))
    /\ UNCHANGED <<pc, gitCalls, failedCalls, gitErr, caught, request, working,
                   branch, sent, cancelled, cancelAt, modelErr>>

StreamEnds ==
    /\ pc = "streaming"
    /\ pc' = "done"
    /\ UNCHANGED <<out, gitCalls, failedCalls, gitErr, caught, request, working,
                   branch, relay>>

StreamFails ==
    /\ pc = "streaming"
    /\ \E err \in ModelErrors : ModelFails(err)
    /\ UNCHANGED <<gitCalls, failedCalls, gitErr, request, working, branch,
                   sent, received, cancelled, cancelAt>>

\* the caller cancels the token handed to sendRequest; the handlers never
\* read the token, and what the service does with it is the service's choice
Cancel ==
    /\ pc \in {"awaitSend", "streaming"}
    /\ ~cancelled
    /\ cancelled' = TRUE
    /\ cancelAt' = received
    /\ UNCHANGED <<pc, out, gitCalls, failedCalls, gitErr, caught, request,
                   working, branch, sent, received, modelErr>>

\* ------------------------------------------------------------ /review
ReviewStart ==
    /\ pc = "idle"
    /\ command = "review"
    /\ IF ~hasWorkspace
       THEN /\ out' = Append(out, NoWorkspaceMessage)
            /\ pc' = "done"
            /\ UNCHANGED gitCalls
       ELSE /\ out' = Append(out, Progress(<<"Fetching git changes...">>))
            /\ gitCalls' = Append(gitCalls, StagedCommand)
            /\ pc' = "awaitStaged"
    /\ UNCHANGED <<failedCalls, gitErr, caught, request, working, branch, relay>>

\* getGitChanges: an invocation failed
GitChangesFails(error) ==
    /\ gitErr' = error
    /\ failedCalls' = failedCalls \cup {Len(gitCalls)}
    /\ ParticipantCatches(GitChangesError(error))

StagedDiffSucceeds ==
    /\ pc = "awaitStaged"
    /\ \E stdout \in DiffOutputs : stagedDiff' = stdout
    /\ gitCalls' = Append(gitCalls, UnstagedCommand)
    /\ pc' = "awaitUnstaged"
    /\ UNCHANGED <<out, failedCalls, gitErr, caught, request, unstagedDiff,
                   gitChanges, branch, relay>>

StagedDiffFails ==
    /\ pc = "awaitStaged"
    /\ \E error \in ProcessErrors : GitChangesFails(error)
    /\ UNCHANGED <<gitCalls, request, working, branch, relay>>

UnstagedDiffSucceeds ==
    /\ pc = "awaitUnstaged"
    /\ \E stdout \in DiffOutputs :
        LET changes == GetGitChangesResult(stagedDiff, stdout)
        IN  /\ unstagedDiff' = stdout
            /\ gitChanges' = changes
            /\ IF NothingToReview(changes)
               THEN /\ out' = Append(out, NoChangesMessage)
                    /\ pc' = "done"
                    /\ UNCHANGED sent
               ELSE /\ out' = Append(out, Progress(<<"Analyzing changes with AI...">>))
                    /\ SendRequest(ReviewPrompt(changes))
    /\ UNCHANGED <<gitCalls, failedCalls, gitErr, caught, request, stagedDiff,
                   branch, received, cancelled, cancelAt, modelErr>>

UnstagedDiffFails ==
    /\ pc = "awaitUnstaged"
    /\ \E error \in ProcessErrors : GitChangesFails(error)
    /\ UNCHANGED <<gitCalls, request, working, branch, relay>>

\* -------------------------------------------------------- /reviewBranch
\* handleReviewBranchCommand, once target and base are decided: the usage
\* hint with its branch listing, or the start of getBranchDiff (the direct
\* verification of the target)
AfterParse(target, base) ==
    /\ targetBranch' = target
    /\ baseBranch' = base
    /\ IF Falsy(target) \/ Falsy(base)
       THEN /\ out' = out \o UsageMessages
            /\ gitCalls' = Append(gitCalls, ListCommand)
            /\ pc' = "awaitListHint"
            /\ UNCHANGED resolving
       ELSE /\ out' = Append(out, Progress(<<"Fetching changes between ">> \o base
                                           \o <<" and ">> \o target \o <<"...">>))
            /\ gitCalls' = Append(gitCalls, VerifyCommand(target))
            /\ resolving' = "target"
            /\ pc' = "awaitVerifyDirect"

ReviewBranchStart ==
    /\ pc = "idle"
    /\ command = "reviewBranch"
    /\ IF ~hasWorkspace
       THEN /\ out' = Append(out, NoWorkspaceMessage)
            /\ pc' = "done"
            /\ UNCHANGED <<gitCalls, targetBranch, baseBranch, resolving>>
       ELSE LET parts == SplitWs(Trim(prompt))
            IN  IF Len(parts) >= 2
                THEN AfterParse(parts[1], parts[2])
                ELSE /\ targetBranch' = parts[1]
                     /\ gitCalls' = Append(gitCalls, ListCommand)
                     /\ pc' = "awaitListDefault"
                     /\ UNCHANGED <<out, baseBranch, resolving>>
    /\ UNCHANGED <<failedCalls, gitErr, caught, request, working, resolvedTarget,
                   resolvedBase, branchDiff, hintListing, diffError, relay>>

\* the listing that defaults the base branch returned
ListDefaultSucceeds ==
    /\ pc = "awaitListDefault"
    /\ \E stdout \in Listings :
        AfterParse(targetBranch, DefaultBase(GetBranchesOf(stdout)))
    /\ UNCHANGED <<failedCalls, gitErr, caught, request, working, resolvedTarget,
                   resolvedBase, branchDiff, hintListing, diffError, relay>>

\* it failed: getBranches throws, the handler ignores the error
ListDefaultFails ==
    /\ pc = "awaitListDefault"
    /\ failedCalls' = failedCalls \cup {Len(gitCalls)}
    /\ AfterParse(targetBranch, baseBranch)
    /\ UNCHANGED <<gitErr, caught, request, working, resolvedTarget,
                   resolvedBase, branchDiff, hintListing, diffError, relay>>

\* the listing of the usage hint returned
ListHintSucceeds ==
    /\ pc = "awaitListHint"
    /\ \E stdout \in Listings :
        /\ hintListing' = stdout
        /\ out' = out \o BranchListMessages(GetBranchesOf(stdout))
    /\ pc' = "done"
    /\ UNCHANGED <<gitCalls, failedCalls, gitErr, caught, request, working,
                   targetBranch, baseBranch, resolving, resolvedTarget,
                   resolvedBase, branchDiff, diffError, relay>>

ListHintFails ==
    /\ pc = "awaitListHint"
    /\ failedCalls' = failedCalls \cup {Len(gitCalls)}
    /\ pc' = "done"
    /\ UNCHANGED <<out, gitCalls, gitErr, caught, request, working, branch, relay>>

\* git rev-parse --verify
Verifies(ref) == ref \in refs

\* the branch the running resolveBranch was called with
Resolving == IF resolving = "target" THEN targetBranch ELSE baseBranch

\* handleReviewBranchCommand: the catch around getBranchDiff
BranchDiffThrows(error) ==
    LET thrown == BranchDiffError(error, targetBranch, baseBranch)
    IN  /\ diffError' = thrown
        /\ out' = out \o BranchDiffErrorMessages(thrown)
        /\ pc' = "done"

\* resolveBranch returned ref: the next resolution, or the diff invocation
ResolvedAs(ref) ==
    /\ UNCHANGED <<out, diffError>>
    /\ IF resolving = "target"
       THEN /\ resolvedTarget' = ref
            /\ resolving' = "base"
            /\ gitCalls' = Append(gitCalls, VerifyCommand(baseBranch))
            /\ pc' = "awaitVerifyDirect"
            /\ UNCHANGED resolvedBase
       ELSE /\ resolvedBase' = ref
            /\ gitCalls' = Append(gitCalls, DiffCommand(ref, resolvedTarget))
            /\ pc' = "awaitBranchDiff"
            /\ UNCHANGED <<resolvedTarget, resolving>>

\* resolveBranch: the verification of the name as given returned
VerifyDirectReturns ==
    /\ pc = "awaitVerifyDirect"
    /\ IF Verifies(Resolving)
       THEN ResolvedAs(Resolving) /\ UNCHANGED failedCalls
       ELSE /\ failedCalls' = failedCalls \cup {Len(gitCalls)}
            /\ UNCHANGED <<resolvedTarget, resolvedBase, resolving>>
            /\ IF RetriesWithPrefix(Resolving)
               THEN /\ gitCalls' = Append(gitCalls,
                                          VerifyCommand(<<"origin/">> \o Resolving))
                    /\ pc' = "awaitVerifyRemote"
                    /\ UNCHANGED <<out, diffError>>
               ELSE /\ BranchDiffThrows(BranchNotFound(Resolving))
                    /\ UNCHANGED gitCalls
    /\ UNCHANGED <<gitErr, caught, request, working, targetBranch, baseBranch,
                   branchDiff, hintListing, relay>>

\* resolveBranch: the verification of origin/<name> returned
VerifyRemoteReturns ==
    /\ pc = "awaitVerifyRemote"
    /\ IF Verifies(<<"origin/">> \o Resolving)
       THEN ResolvedAs(<<"origin/">> \o Resolving) /\ UNCHANGED failedCalls
       ELSE /\ failedCalls' = failedCalls \cup {Len(gitCalls)}
            /\ BranchDiffThrows(BranchNotFound(Resolving))
            /\ UNCHANGED <<gitCalls, resolvedTarget, resolvedBase, resolving>>
    /\ UNCHANGED <<gitErr, caught, request, working, targetBranch, baseBranch,
                   branchDiff, hintListing, relay>>

\* getBranchDiff: the diff invocation returned
BranchDiffSucceeds ==
    /\ pc = "awaitBranchDiff"
    /\ \E stdout \in DiffOutputs :
        /\ branchDiff' = stdout
        /\ IF NothingToReview(stdout)
           THEN /\ out' = Append(out, NoDifferencesMessage(targetBranch, baseBranch))
                /\ pc' = "done"
                /\ UNCHANGED sent
           ELSE /\ out' = Append(out, Progress(<<"Analyzing branch changes with AI...">>))
                /\ SendRequest(BranchPrompt(targetBranch, baseBranch, stdout))
    /\ UNCHANGED <<gitCalls, failedCalls, gitErr, caught, request, working,
                   targetBranch, baseBranch, resolving, resolvedTarget,
                   resolvedBase, hintListing, diffError, received, cancelled,
                   cancelAt, modelErr>>

BranchDiffFails ==
    /\ pc = "awaitBranchDiff"
    /\ \E error \in ProcessErrors :
        /\ gitErr' = error
        /\ BranchDiffThrows(error)
    /\ failedCalls' = failedCalls \cup {Len(gitCalls)}
    /\ UNCHANGED <<gitCalls, caught, request, working, targetBranch, baseBranch,
                   resolving, resolvedTarget, resolvedBase, branchDiff,
                   hintListing, relay>>

\* ------------------------------------------------------- specification
Next ==
    \/ DefaultConversation
    \/ ReviewStart
    \/ StagedDiffSucceeds
    \/ StagedDiffFails
    \/ UnstagedDiffSucceeds
    \/ UnstagedDiffFails
    \/ ReviewBranchStart
    \/ ListDefaultSucceeds
    \/ ListDefaultFails
    \/ ListHintSucceeds
    \/ ListHintFails
    \/ VerifyDirectReturns
    \/ VerifyRemoteReturns
    \/ BranchDiffSucceeds
    \/ BranchDiffFails
    \/ SendRequestSucceeds
    \/ SendRequestFails
    \/ FragmentArrives
    \/ StreamEnds
    \/ StreamFails
    \/ Cancel

Spec == Init /\ [][Next]_vars

TypeOK ==
    /\ pc \in {"idle", "awaitStaged", "awaitUnstaged", "awaitListDefault",
               "awaitListHint", "awaitVerifyDirect", "awaitVerifyRemote",
               "awaitBranchDiff", "awaitSend", "streaming", "done"}
    /\ received \in 0..MaxFragments
    /\ Len(sent) <= 1
    /\ failedCalls \subseteq 1..Len(gitCalls)

\* -------------------------------------------------------------- reading
\* the section labels of a combined diff, in order
LabelTokens == {"=== STAGED CHANGES ===", "=== UNSTAGED CHANGES ===",
                "=== BRANCH DIFF ==="}
SectionLabels(text) == SelectSeq(text, LAMBDA t : t \in LabelTokens)

\* the body of the section labelled `label`: what follows its header line
\* up to the next label or the end
RECURSIVE UpToLabel(_)
UpToLabel(text) ==
    IF text = <<>> \/ Head(text) \in LabelTokens THEN <<>>
    ELSE <<Head(text)>> \o UpToLabel(Tail(text))

SectionBody(text, label) ==
    UpToLabel(SubSeq(text, IndexOf(text, label) + 2, Len(text)))

IsVerifyCall(c) == Head(c) = "git rev-parse --verify "
IsDiffCall(c) == Head(c) = "git diff "
VerifyCalls == SelectSeq(gitCalls, IsVerifyCall)
DiffCalls == SelectSeq(gitCalls, IsDiffCall)

WithOrigin(name) == <<"origin/">> \o name

\* a stream call that shows a failure: its text starts with the marker
IsFailureMessage(m) ==
    /\ m.kind = "markdown"
    /\ Trim(m.text) # <<>>
    /\ Head(Trim(m.text)) = FailureMarker
HasFailureMessage == \E i \in 1..Len(out) : IsFailureMessage(out[i])

\* the fragments forwarded to the caller, in order
IsFragment(m) ==
    m.kind = "markdown" /\ \E i \in 1..MaxFragments : m.text = Fragment(i)
Delivered == SelectSeq(out, IsFragment)

\* --------------------------------------------------------------- claims

\* C1: the combined diff of getGitChanges holds a section exactly when the
\* trimmed diff of that section is not empty, no section has a body that is
\* empty after trimming, and STAGED CHANGES comes before UNSTAGED CHANGES.
C1_SectionsWellFormed ==
    gitChanges # Undefined =>
        LET labels == SectionLabels(gitChanges)
        IN  /\ Includes(labels, "=== STAGED CHANGES ===") <=> Trim(stagedDiff) # <<>>
            /\ Includes(labels, "=== UNSTAGED CHANGES ===") <=> Trim(unstagedDiff) # <<>>
            /\ labels \in {<<>>, <<"=== STAGED CHANGES ===">>,
                           <<"=== UNSTAGED CHANGES ===">>,
                           <<"=== STAGED CHANGES ===", "=== UNSTAGED CHANGES ===">>}
            /\ \A i \in 1..Len(labels) :
                   Trim(SectionBody(gitChanges, labels[i])) # <<>>
            /\ labels = <<>> => gitChanges = <<>>

C1_Witness ==
    /\ gitChanges # Undefined
    /\ Len(SectionLabels(gitChanges)) = 2
    /\ stagedDiff = <<"\n", "+a">>

\* C2: resolveBranch returns the name when it verifies, else origin/<name>
\* when the name has no origin/ prefix and origin/<name> verifies, else it
\* fails with BranchNotFound for the name; it verifies exactly the name and,
\* only for an unprefixed name that did not verify, origin/<name>.
ExpectedRef(name) ==
    IF name \in refs THEN name
    ELSE IF ~StartsWith(name, <<"origin/">>) /\ WithOrigin(name) \in refs
         THEN WithOrigin(name)
    ELSE Undefined

ExpectedVerifications(name) ==
    IF name \in refs \/ StartsWith(name, <<"origin/">>)
    THEN <<<<"git rev-parse --verify ">> \o name>>
    ELSE <<<<"git rev-parse --verify ">> \o name,
           <<"git rev-parse --verify ", "origin/">> \o name>>

NotFoundError(name) ==
    [name |-> "Error", code |-> "none",
     message |-> <<"Branch '">> \o name \o <<"' not found">>]

TargetResolutionOver ==
    resolvedTarget # Undefined \/ (pc = "done" /\ resolving = "target")
BaseResolutionOver ==
    resolvedBase # Undefined \/ (pc = "done" /\ resolving = "base")

\* C2: every completed resolveBranch has the outcome and has issued exactly
\* the verifications that the name and the repository's references determine.
C2_ResolveBranch ==
    /\ TargetResolutionOver =>
        /\ resolvedTarget = ExpectedRef(targetBranch)
        /\ resolvedTarget = Undefined =>
               /\ diffError = NotFoundError(targetBranch)
               /\ VerifyCalls = ExpectedVerifications(targetBranch)
    /\ BaseResolutionOver =>
        /\ resolvedBase = ExpectedRef(baseBranch)
        /\ resolvedBase = Undefined => diffError = NotFoundError(baseBranch)
        /\ VerifyCalls = ExpectedVerifications(targetBranch)
                         \o ExpectedVerifications(baseBranch)

C2_Witness ==
    /\ targetBranch = <<"feature/x">>
    /\ resolvedTarget = <<"origin/", "feature/x">>
    /\ baseBranch = <<"main">>
    /\ resolvedBase = <<"origin/", "main">>

\* C4: when exactly one of target and base resolves neither directly nor
\* under origin/, getBranchDiff fails with BranchNotFound naming that branch
\* as the caller gave it and issues no diff invocation; a diff invocation is
\* issued only after both resolutions succeeded.
Unresolvable(name) == name \notin refs /\ WithOrigin(name) \notin refs

\* C4: one missing branch is the one the error names, and no diff runs
\* before both branches are resolved.
C4_MissingBranchNamed ==
    /\ (pc = "done" /\ resolving # "none"
        /\ Unresolvable(targetBranch) # Unresolvable(baseBranch)) =>
            LET missing == IF Unresolvable(targetBranch)
                           THEN targetBranch ELSE baseBranch
            IN  /\ diffError = NotFoundError(missing)
                /\ DiffCalls = <<>>
                /\ branchDiff = Undefined
    /\ DiffCalls # <<>> =>
        /\ resolvedTarget \in refs
        /\ resolvedBase \in refs
        /\ Len(DiffCalls) = 1
        /\ \A i \in 1..Len(gitCalls) :
               IsVerifyCall(gitCalls[i]) => i < IndexOf(gitCalls, DiffCalls[1])

C4_Witness ==
    /\ pc = "done"
    /\ resolvedTarget = <<"origin/", "feature/x">>
    /\ Unresolvable(baseBranch)
    /\ diffError = NotFoundError(baseBranch)

\* C5: reviewing feature/x against main, with feature/x present only as
\* origin/feature/x and main present locally.
C5_Scenario ==
    /\ targetBranch = <<"feature/x">>
    /\ baseBranch = <<"main">>
    /\ <<"feature/x">> \notin refs
    /\ <<"origin/", "feature/x">> \in refs
    /\ <<"main">> \in refs
    /\ branchDiff # Undefined

StripPrefix(b) ==
    IF StartsWith(b, <<"origin/">>) THEN SubSeq(b, 2, Len(b)) ELSE b

RECURSIVE FirstOccurrences(_, _)
FirstOccurrences(names, seen) ==
    IF names = <<>> THEN <<>>
    ELSE IF Head(names) \in seen THEN FirstOccurrences(Tail(names), seen)
    ELSE <<Head(names)>> \o FirstOccurrences(Tail(names), seen \cup {Head(names)})

ListedBranches(stdout) ==
    LET lines == Split(stdout, "\n")
        names == SelectSeq([i \in 1..Len(lines) |-> Trim(lines[i])],
                           LAMBDA b : b # <<>> /\ b # <<"origin/", "HEAD">>)
    IN  FirstOccurrences([i \in 1..Len(names) |-> StripPrefix(names[i])], {})

\* the branches the usage hint shows: its "- <branch>\n" items
ShownBranches ==
    LET items == SelectSeq(out, LAMBDA m : m.kind = "markdown" /\ Head(m.text) = "- ")
    IN  [i \in 1..Len(items) |-> SubSeq(items[i].text, 2, Len(items[i].text) - 1)]

\* C3: the branches shown from a listing are the listing's branches, each
\* once, origin/ stripped as a prefix only, origin/HEAD left out.
C3_BranchesListedOnce ==
    hintListing # Undefined => ShownBranches = ListedBranches(hintListing)

\* C6: once the token is cancelled after k fragments, the caller has exactly
\* those k fragments, no fragment is forwarded afterwards and no error is
\* raised (stated for the runs in which the model service itself raises no
\* error, so that only the relay's own conduct is in question).
C6_CancelStopsRelay ==
    (cancelled /\ modelErr = NoError) =>
        /\ Delivered = [i \in 1..cancelAt |-> Markdown(Fragment(i))]
        /\ caught = NoError
        /\ ~HasFailureMessage

\* C7: a classified model error, on the submission or after any number of
\* relayed fragments, ends the relay with a message carrying the marker and
\* the error's message, nothing is thrown and the relayed fragments stay;
\* any other error of the model service leaves the relay unchanged and is
\* what the participant catches.
C7_ModelErrors ==
    modelErr # NoError =>
        /\ pc = "done"
        /\ Delivered = [i \in 1..received |-> Markdown(Fragment(i))]
        /\ IF modelErr.name = "LanguageModelError"
           THEN /\ caught = NoError
                /\ out[Len(out)].text
                     = <<"\n", "\n", FailureMarker, " **Error**: ">> \o modelErr.message
                /\ Len(SelectSeq(out, IsFailureMessage)) = 1
           ELSE /\ caught = modelErr
                /\ out[Len(out)].text
                     = <<FailureMarker, " Error: ">> \o modelErr.message

C7_Witness ==
    /\ modelErr.name = "LanguageModelError"
    /\ received = 2
    /\ pc = "done"

\* C8: with both diffs empty getGitChanges returns the empty text without an
\* error and the request ends with "nothing to review": no prompt, no model
\* request, no failure message.  The model service is asked at most once
\* per request, and only after the diff was collected with content.
C8_NothingToReview ==
    /\ (gitChanges # Undefined /\ Trim(stagedDiff) = <<>> /\ Trim(unstagedDiff) = <<>>) =>
        /\ gitChanges = <<>>
        /\ pc = "done"
        /\ sent = <<>>
        /\ gitErr = NoError /\ caught = NoError
        /\ ~HasFailureMessage
        /\ out[Len(out)].text
             = <<"(information)",
                 " No local git changes to review. Make some changes to your files first!">>
    /\ Len(sent) <= 1
    /\ sent # <<>> =>
        \/ command = "review" /\ gitChanges # Undefined /\ Trim(gitChanges) # <<>>
        \/ command = "reviewBranch" /\ branchDiff # Undefined /\ Trim(branchDiff) # <<>>

C8_Witness ==
    /\ pc = "done"
    /\ stagedDiff = <<>> /\ unstagedDiff = <<>>
    /\ gitChanges = <<>>

\* C10: in getGitChanges a failed diff invocation with exit code 128 is
\* thrown as "Not a git repository", any other failure is thrown as it is;
\* nothing is returned, and after a failed staged diff the unstaged diff is
\* not run.
C10_DiffFailure ==
    (command = "review" /\ gitErr # NoError) =>
        /\ pc = "done"
        /\ gitChanges = Undefined
        /\ sent = <<>>
        /\ caught = IF gitErr.code = "128"
                    THEN [name |-> "Error", code |-> "none",
                          message |-> <<"Not a git repository">>]
                    ELSE gitErr
        /\ stagedDiff = Undefined =>
               gitCalls = <<<<"git diff --cached">>>> /\ unstagedDiff = Undefined
        /\ stagedDiff # Undefined =>
               gitCalls = <<<<"git diff --cached">>, <<"git diff">>>>
               /\ unstagedDiff = Undefined

C10_Witness ==
    /\ command = "review"
    /\ gitErr.code = "128"
    /\ stagedDiff = Undefined
    /\ caught.message = <<"Not a git repository">>


\* C9: which failures end in a message carrying the failure marker.
Parts == SplitWs(Trim(prompt))
IsListing(i) == gitCalls[i] = ListCommand
IsDefaultListing(i) == i = 1 /\ IsListing(i) /\ Len(Parts) < 2
IsHintListing(i) == IsListing(i) /\ ~IsDefaultListing(i)

\* the failed call i is what the request's failure message reports: it is
\* the last call, or the direct verification whose retry failed last
Reported(i) ==
    /\ HasFailureMessage
    /\ \/ i = Len(gitCalls)
       \/ /\ i + 1 = Len(gitCalls)
          /\ i + 1 \in failedCalls
          /\ IsVerifyCall(gitCalls[i]) /\ IsVerifyCall(gitCalls[i + 1])

\* the failed direct verification i was recovered by the retry with origin/
RecoveredVerification(i) ==
    /\ IsVerifyCall(gitCalls[i])
    /\ i < Len(gitCalls)
    /\ gitCalls[i + 1] = <<"git rev-parse --verify ", "origin/">> \o Tail(gitCalls[i])
    /\ i + 1 \notin failedCalls

\* C9 as stated: every failed git invocation and every model failure ends in
\* a message with the failure marker, but for the listing of the usage hint,
\* whose failure only leaves the branch list out of the hint.
C9_AsStated ==
    pc = "done" =>
        /\ modelErr # NoError => HasFailureMessage
        /\ \A i \in failedCalls : Reported(i) \/ IsHintListing(i)
        /\ (\E i \in failedCalls : IsHintListing(i)) => out = UsageMessages

\* C9 amended: also without a message are a failed direct verification that
\* the retry with origin/ recovers, and the failed listing that defaults the
\* base branch, after which the base stays undefined and the request ends
\* with the usage hint.
C9_FailuresSurfaced ==
    pc = "done" =>
        /\ modelErr # NoError => HasFailureMessage
        /\ \A i \in failedCalls :
               Reported(i) \/ IsListing(i) \/ RecoveredVerification(i)
        /\ (\E i \in failedCalls : IsHintListing(i)) => out = UsageMessages
        /\ (\E i \in failedCalls : IsDefaultListing(i)) =>
               /\ baseBranch = Undefined
               /\ Len(out) >= 3 /\ SubSeq(out, 1, 3) = UsageMessages
               /\ ~HasFailureMessage

C9_Witness ==
    /\ pc = "done"
    /\ gitCalls = <<ListCommand, ListCommand>>
    /\ targetBranch = <<"feature/x">>
    /\ failedCalls = {1}
    /\ Len(out) > 3

====
